---------------------------- MODULE Spec2Model ----------------------------
(***************************************************************************)
(* Model of the measurement / uncertainty layer and of the optical         *)
(* computations (Slide, Trial) of the Data-Analysis crate.                 *)
(*                                                                         *)
(* Numbers.  The program computes in f64.  A number is modelled as a       *)
(* floating-point value in base 10: a finite value is sign * m * 10^e,     *)
(* and there are the two infinities and NaN.  A literal of the source is   *)
(* the decimal value it is written as; every arithmetic operation returns  *)
(* the exact result rounded to SigDigits significant digits (round to      *)
(* nearest, ties to even), as IEEE 754 arithmetic does in base 2 with 53   *)
(* bits; comparisons are exact.  Division by zero gives an infinity or     *)
(* NaN, never a failure.  Exponents are unbounded (no overflow to          *)
(* infinity, no underflow).                                                *)
(*                                                                         *)
(* Failures.  A panic of the program is the outcome                        *)
(* [kind |-> "panic", msg |-> <the panic message>].                        *)
(***************************************************************************)
EXTENDS Integers, Sequences, FiniteSets, TLC

\* Significant decimal digits kept by an arithmetic operation.
SigDigits == 3

---------------------------------------------------------------------------
\* f64 values

RECURSIVE Pow10(_)
Pow10(n) == IF n <= 0 THEN 1 ELSE 10 * Pow10(n - 1)

\* Number of decimal digits of a natural number (0 has none).
RECURSIVE Digits(_)
Digits(m) == IF m = 0 THEN 0 ELSE 1 + Digits(m \div 10)

Zero(s) == [k |-> "fin", s |-> s, m |-> 0, e |-> 0]
Inf(s) == [k |-> "inf", s |-> s, m |-> 0, e |-> 0]
NaN == [k |-> "nan", s |-> 1, m |-> 0, e |-> 0]

\* The finite value s * m * 10^e in canonical form (no trailing zero in m).
RECURSIVE Fin(_, _, _)
Fin(s, m, e) ==
    IF m = 0 THEN Zero(s)
    ELSE IF m % 10 = 0 THEN Fin(s, m \div 10, e + 1)
    ELSE [k |-> "fin", s |-> s, m |-> m, e |-> e]

\* A decimal literal of the source: m * 10^e, negative when written with "-".
Lit(m, e) == IF m < 0 THEN Fin(-1, -m, e) ELSE Fin(1, m, e)

IsFinite(x) == x.k = "fin"
IsZero(x) == x.k = "fin" /\ x.m = 0
IsNaN(x) == x.k = "nan"

\* Position of the leading digit of a finite non-zero value.
Ord(x) == Digits(x.m) + x.e

\* |x| < |y| for finite values.
MagLt(x, y) ==
    IF y.m = 0 THEN FALSE
    ELSE IF x.m = 0 THEN TRUE
    ELSE IF Ord(x) # Ord(y) THEN Ord(x) < Ord(y)
    ELSE LET e == IF x.e < y.e THEN x.e ELSE y.e
         IN x.m * Pow10(x.e - e) < y.m * Pow10(y.e - e)

\* The comparison operators of f64: every comparison with NaN is false,
\* and -0.0 equals 0.0.
FLt(x, y) ==
    IF IsNaN(x) \/ IsNaN(y) THEN FALSE
    ELSE IF x.k = "inf" THEN x.s = -1 /\ ~(y.k = "inf" /\ y.s = -1)
    ELSE IF y.k = "inf" THEN y.s = 1
    ELSE IF IsZero(x) /\ IsZero(y) THEN FALSE
    ELSE IF x.s # y.s THEN
        IF IsZero(x) THEN y.s = 1
        ELSE IF IsZero(y) THEN x.s = -1
        ELSE x.s = -1
    ELSE IF x.s = 1 THEN MagLt(x, y) ELSE MagLt(y, x)

FEq(x, y) ==
    IF IsNaN(x) \/ IsNaN(y) THEN FALSE
    ELSE IF IsZero(x) /\ IsZero(y) THEN TRUE
    ELSE x = y

FLe(x, y) == FLt(x, y) \/ FEq(x, y)
FGt(x, y) == FLt(y, x)
FGe(x, y) == FLe(y, x)

\* The value s * m * 10^e, of which `sticky` says that digits below m were
\* cut off, rounded to SigDigits digits: to nearest, ties to even.
Round(s, m, e, sticky) ==
    LET k == Digits(m) - SigDigits
    IN IF k <= 0 THEN Fin(s, m, e)
       ELSE LET q == m \div Pow10(k)
                r == m % Pow10(k)
                half == 5 * Pow10(k - 1)
                up == \/ r > half
                      \/ r = half /\ sticky
                      \/ r = half /\ ~sticky /\ q % 2 = 1
            IN Fin(s, IF up THEN q + 1 ELSE q, e + k)

\* x * y
FMul(x, y) ==
    IF IsNaN(x) \/ IsNaN(y) THEN NaN
    ELSE IF x.k = "inf" \/ y.k = "inf" THEN
        IF IsZero(x) \/ IsZero(y) THEN NaN ELSE Inf(x.s * y.s)
    ELSE IF x.m = 0 \/ y.m = 0 THEN Zero(x.s * y.s)
    ELSE Round(x.s * y.s, x.m * y.m, x.e + y.e, FALSE)

\* x + y
FAdd(x, y) ==
    IF IsNaN(x) \/ IsNaN(y) THEN NaN
    ELSE IF x.k = "inf" THEN
        IF y.k = "inf" /\ y.s # x.s THEN NaN ELSE x
    ELSE IF y.k = "inf" THEN y
    ELSE IF x.m = 0 /\ y.m = 0 THEN Zero(IF x.s = -1 /\ y.s = -1 THEN -1 ELSE 1)
    ELSE IF x.m = 0 THEN y
    ELSE IF y.m = 0 THEN x
    ELSE LET e == IF x.e < y.e THEN x.e ELSE y.e
             n == x.s * x.m * Pow10(x.e - e) + y.s * y.m * Pow10(y.e - e)
         IN IF n = 0 THEN Zero(1)
            ELSE IF n < 0 THEN Round(-1, -n, e, FALSE)
            ELSE Round(1, n, e, FALSE)

FNeg(x) == IF IsNaN(x) THEN NaN ELSE [x EXCEPT !.s = -x.s]

\* x - y
FSub(x, y) == FAdd(x, FNeg(y))

\* The first `n` digits of the quotient a / b after its leading digit, and
\* the remainder, by long division; 0 < a, 0 < b, a \div b < 10.
RECURSIVE LongDiv(_, _, _, _)
LongDiv(q, r, b, n) ==
    IF n = 0 THEN <<q, r>>
    ELSE LongDiv(10 * q + (10 * r) \div b, (10 * r) % b, b, n - 1)

\* x / y
FDiv(x, y) ==
    IF IsNaN(x) \/ IsNaN(y) THEN NaN
    ELSE IF x.k = "inf" THEN
        IF y.k = "inf" THEN NaN ELSE Inf(x.s * y.s)
    ELSE IF y.k = "inf" THEN Zero(x.s * y.s)
    ELSE IF y.m = 0 THEN
        IF x.m = 0 THEN NaN ELSE Inf(x.s * y.s)
    ELSE IF x.m = 0 THEN Zero(x.s * y.s)
    ELSE LET da == Digits(x.m)
             db == Digits(y.m)
             \* scale both mantissas to the same number of digits
             ka == IF db > da THEN db - da ELSE 0
             kb == IF da > db THEN da - db ELSE 0
             a0 == x.m * Pow10(ka)
             b == y.m * Pow10(kb)
             e0 == (x.e - ka) - (y.e - kb)
             \* and the dividend up so that 1 <= a / b < 10
             a == IF a0 < b THEN 10 * a0 ELSE a0
             e == IF a0 < b THEN e0 - 1 ELSE e0
             d == LongDiv(a \div b, a % b, b, SigDigits)
         IN Round(x.s * y.s, d[1], e - SigDigits, d[2] # 0)

---------------------------------------------------------------------------
\* Outcomes of a call: a returned f64, or a panic with its message.

Ok(v) == [kind |-> "ok", val |-> v]
Panic(msg) == [kind |-> "panic", msg |-> msg]

\* Option<T> of a lookup.
Some(v) == [some |-> TRUE, val |-> v]
None == [some |-> FALSE]

\* HashMap::get
HashMapGet(map, key) == IF key \in DOMAIN map THEN Some(map[key]) ELSE None

UnwrapNoneMsg == "called Option::unwrap() on a None value"

---------------------------------------------------------------------------
\* measurement/power_meter/newportmodel835powermeter.rs

\* A constructor that validates: a power outside [0, 0.2] W is stored as 0.
NewportModel835PowerMeterMeasurement_new_Validated(value) ==
    [type |-> "NewportModel835PowerMeterMeasurement",
     value |-> IF FLe(Zero(1), value) /\ FLe(value, Lit(200, -3))
               THEN value ELSE Zero(1)]

NewportModel835PowerMeterMeasurement_new(value) ==
    [type |-> "NewportModel835PowerMeterMeasurement", value |-> value]

NewportModel835PowerMeterMeasurementBackground_new(background) ==
    [type |-> "NewportModel835PowerMeterMeasurementBackground", b |-> background]

NEWPORT_MODEL_835_POWER_METER_FULLSCALE_UNCERTAINTIES ==
    ("Twonanowatts" :> Lit(2, -3)) @@
    ("Twentynanowatts" :> Lit(5, -4)) @@
    ("Twohundrednanowatts" :> Lit(5, -4)) @@
    ("Twomilliwatts" :> Lit(5, -4)) @@
    ("Twentymilliwatts" :> Lit(5, -4)) @@
    ("Twohundredmilliwatts" :> Lit(5, -4))

\* The reading table without the entry of the 2 mW range.
NEWPORT_MODEL_835_POWER_METER_READING_UNCERTAINTIES_NoTwomilliwatts ==
    ("Twonanowatts" :> Lit(4, -3)) @@
    ("Twentynanowatts" :> Lit(4, -3)) @@
    ("Twohundrednanowatts" :> Lit(2, -3)) @@
    ("Twentymilliwatts" :> Lit(1, -3)) @@
    ("Twohundredmilliwatts" :> Lit(1, -3))

NEWPORT_MODEL_835_POWER_METER_READING_UNCERTAINTIES ==
    ("Twonanowatts" :> Lit(4, -3)) @@
    ("Twentynanowatts" :> Lit(4, -3)) @@
    ("Twohundrednanowatts" :> Lit(2, -3)) @@
    ("Twomilliwatts" :> Lit(15, -4)) @@
    ("Twentymilliwatts" :> Lit(1, -3)) @@
    ("Twohundredmilliwatts" :> Lit(1, -3))

\* enum NewportModel835PowerMeterRange: its variants, in the order of the
\* arms of get_range.
NewportModel835PowerMeterRange ==
    <<"Twonanowatts", "Twentynanowatts", "Twohundrednanowatts",
      "Twomilliwatts", "Twentymilliwatts", "Twohundredmilliwatts">>

\* The guards of the arms of NewportModel835PowerMeterRange::get_range, in
\* order; (a..=b).contains(&x) is a <= x && x <= b.
Newport_get_range_guards(x) ==
    << FLe(Zero(1), x) /\ FLe(x, Lit(2, -9)),
       FGt(x, Lit(2, -9)) /\ FLe(x, Lit(20, -9)),
       FGt(x, Lit(20, -9)) /\ FLe(x, Lit(200, -9)),
       FGt(x, Lit(200, -9)) /\ FLe(x, Lit(2, -3)),
       FGt(x, Lit(2, -3)) /\ FLe(x, Lit(20, -3)),
       FGt(x, Lit(20, -3)) /\ FLe(x, Lit(200, -3)) >>

\* get_range with the upper bound of the first bucket excluded (x < 2 nW).
Newport_get_range_UpperExcluded(x) ==
    IF FLe(Zero(1), x) /\ FLt(x, Lit(2, -9)) THEN "Twonanowatts"
    ELSE IF FGe(x, Lit(2, -9)) /\ FLe(x, Lit(20, -9)) THEN "Twentynanowatts"
    ELSE IF FGt(x, Lit(20, -9)) /\ FLe(x, Lit(200, -9)) THEN "Twohundrednanowatts"
    ELSE IF FGt(x, Lit(200, -9)) /\ FLe(x, Lit(2, -3)) THEN "Twomilliwatts"
    ELSE IF FGt(x, Lit(2, -3)) /\ FLe(x, Lit(20, -3)) THEN "Twentymilliwatts"
    ELSE IF FGt(x, Lit(20, -3)) /\ FLe(x, Lit(200, -3)) THEN "Twohundredmilliwatts"
    ELSE "panic"

\* get_range whose first arm has no lower bound and whose last arm has no
\* upper bound: a value outside [0, 200 mW] takes the nearest bucket.
Newport_get_range_Clamped(x) ==
    IF FLe(x, Lit(2, -9)) THEN "Twonanowatts"
    ELSE IF FGt(x, Lit(2, -9)) /\ FLe(x, Lit(20, -9)) THEN "Twentynanowatts"
    ELSE IF FGt(x, Lit(20, -9)) /\ FLe(x, Lit(200, -9)) THEN "Twohundrednanowatts"
    ELSE IF FGt(x, Lit(200, -9)) /\ FLe(x, Lit(2, -3)) THEN "Twomilliwatts"
    ELSE IF FGt(x, Lit(2, -3)) /\ FLe(x, Lit(20, -3)) THEN "Twentymilliwatts"
    ELSE IF FGt(x, Lit(20, -3)) THEN "Twohundredmilliwatts"
    ELSE "panic"

\* NewportModel835PowerMeterRange::get_range: the first arm whose guard
\* holds; its result is the variant, or "panic" for the last arm.
Newport_get_range(x) ==
    IF FLe(Zero(1), x) /\ FLe(x, Lit(2, -9)) THEN "Twonanowatts"
    ELSE IF FGt(x, Lit(2, -9)) /\ FLe(x, Lit(20, -9)) THEN "Twentynanowatts"
    ELSE IF FGt(x, Lit(20, -9)) /\ FLe(x, Lit(200, -9)) THEN "Twohundrednanowatts"
    ELSE IF FGt(x, Lit(200, -9)) /\ FLe(x, Lit(2, -3)) THEN "Twomilliwatts"
    ELSE IF FGt(x, Lit(2, -3)) /\ FLe(x, Lit(20, -3)) THEN "Twentymilliwatts"
    ELSE IF FGt(x, Lit(20, -3)) /\ FLe(x, Lit(200, -3)) THEN "Twohundredmilliwatts"
    ELSE "panic"

\* AbsoluteUncertainty::uncertainty of a Newport reading
Newport_uncertainty(self) ==
    LET value == self.value
        range == Newport_get_range(self.value)
        fullscale_frac_uncertainty ==
            HashMapGet(NEWPORT_MODEL_835_POWER_METER_FULLSCALE_UNCERTAINTIES, range)
        reading_frac_uncertainty ==
            HashMapGet(NEWPORT_MODEL_835_POWER_METER_READING_UNCERTAINTIES, range)
    IN IF range = "panic" THEN Panic("oops")
       ELSE IF ~fullscale_frac_uncertainty.some THEN Panic(UnwrapNoneMsg)
       ELSE IF ~reading_frac_uncertainty.some THEN Panic(UnwrapNoneMsg)
       ELSE Ok(FMul(value, FAdd(fullscale_frac_uncertainty.val,
                                reading_frac_uncertainty.val)))

---------------------------------------------------------------------------
\* measurement/power_meter/thorlabspm100a.rs

ThorLabsPM100A_S120VC_PowerMeterMeasurement_new(value, at_wavelength) ==
    [type |-> "ThorLabsPM100A_S120VC_PowerMeterMeasurement",
     value |-> value, at_wavelength |-> at_wavelength]

ThorLabsPM100A_S120VC_PowerMeterMeasurementBackground_new(background) ==
    [type |-> "ThorLabsPM100A_S120VC_PowerMeterMeasurementBackground",
     b |-> background]

THORLABS_PM100A_S120VC_WAVELENGTH_UNCERTAINTIES ==
    ("Range440to980nm" :> Lit(3, -2)) @@
    ("Range200to279nm" :> Lit(7, -2)) @@
    ("Range280to439nm" :> Lit(5, -2)) @@
    ("Range981to1100nm" :> Lit(7, -2))

\* enum ThorlabsPm100aS120vcUncertaintyWavelengthRange: its variants, in the
\* order of the arms of get_range.
ThorlabsPm100aS120vcUncertaintyWavelengthRange ==
    <<"Range200to279nm", "Range280to439nm", "Range440to980nm",
      "Range981to1100nm">>

\* The guards of the arms of
\* ThorlabsPm100aS120vcUncertaintyWavelengthRange::get_range, in order.
Thorlabs_get_range_guards(x) ==
    << FLe(Lit(200, 0), x) /\ FLe(x, Lit(279, 0)),
       FGt(x, Lit(279, 0)) /\ FLe(x, Lit(439, 0)),
       FGt(x, Lit(439, 0)) /\ FLe(x, Lit(980, 0)),
       FGt(x, Lit(980, 0)) /\ FLe(x, Lit(1100, 0)) >>

\* get_range with the second bucket starting at 280, as its name says.
Thorlabs_get_range_From280(x) ==
    IF FLe(Lit(200, 0), x) /\ FLe(x, Lit(279, 0)) THEN "Range200to279nm"
    ELSE IF FGe(x, Lit(280, 0)) /\ FLe(x, Lit(439, 0)) THEN "Range280to439nm"
    ELSE IF FGt(x, Lit(439, 0)) /\ FLe(x, Lit(980, 0)) THEN "Range440to980nm"
    ELSE IF FGt(x, Lit(980, 0)) /\ FLe(x, Lit(1100, 0)) THEN "Range981to1100nm"
    ELSE "panic"

\* get_range whose first arm has no lower bound and whose last arm has no
\* upper bound.
Thorlabs_get_range_Clamped(x) ==
    IF FLe(x, Lit(279, 0)) THEN "Range200to279nm"
    ELSE IF FGt(x, Lit(279, 0)) /\ FLe(x, Lit(439, 0)) THEN "Range280to439nm"
    ELSE IF FGt(x, Lit(439, 0)) /\ FLe(x, Lit(980, 0)) THEN "Range440to980nm"
    ELSE IF FGt(x, Lit(980, 0)) THEN "Range981to1100nm"
    ELSE "panic"

\* ThorlabsPm100aS120vcUncertaintyWavelengthRange::get_range
Thorlabs_get_range(x) ==
    IF FLe(Lit(200, 0), x) /\ FLe(x, Lit(279, 0)) THEN "Range200to279nm"
    ELSE IF FGt(x, Lit(279, 0)) /\ FLe(x, Lit(439, 0)) THEN "Range280to439nm"
    ELSE IF FGt(x, Lit(439, 0)) /\ FLe(x, Lit(980, 0)) THEN "Range440to980nm"
    ELSE IF FGt(x, Lit(980, 0)) /\ FLe(x, Lit(1100, 0)) THEN "Range981to1100nm"
    ELSE "panic"

\* uncertainty() of a Thorlabs reading that also validates the power, as the
\* Newport model does: a negative value or one above 0.2 W is rejected.
Thorlabs_uncertainty_ValidatesPower(self) ==
    LET value == self.value
        range == Thorlabs_get_range(self.at_wavelength)
        frac_uncertainty ==
            HashMapGet(THORLABS_PM100A_S120VC_WAVELENGTH_UNCERTAINTIES, range)
    IN IF range = "panic"
       THEN Panic("Invalid measurement. Wavelength is out of range.")
       ELSE IF ~(FLe(Zero(1), value) /\ FLe(value, Lit(200, -3)))
       THEN Panic("oops")
       ELSE IF ~frac_uncertainty.some THEN Panic(UnwrapNoneMsg)
       ELSE Ok(FMul(value, frac_uncertainty.val))

\* AbsoluteUncertainty::uncertainty of a Thorlabs reading
Thorlabs_uncertainty(self) ==
    LET value == self.value
        range == Thorlabs_get_range(self.at_wavelength)
        frac_uncertainty ==
            HashMapGet(THORLABS_PM100A_S120VC_WAVELENGTH_UNCERTAINTIES, range)
    IN IF range = "panic"
       THEN Panic("Invalid measurement. Wavelength is out of range.")
       ELSE IF ~frac_uncertainty.some THEN Panic(UnwrapNoneMsg)
       ELSE Ok(FMul(value, frac_uncertainty.val))

---------------------------------------------------------------------------
\* measurement/power_measurement.rs: the capabilities

\* Measurement::value, for either instrument type
value(self) == self.value

\* Background::background, for either instrument type
background(self) == self.b

---------------------------------------------------------------------------
\* experiment/slide.rs

\* The column index with Vertical mapped to the adjacent column.
get_reflectivity_column_index_Adjacent(polarization) ==
    IF polarization = "Horizontal" THEN 0 ELSE 1

get_reflectivity_column_index(polarization) ==
    IF polarization = "Horizontal" THEN 0 ELSE 2

get_sensor_label_row_index(sensor_label) ==
    IF sensor_label = "SensorA" THEN 0 ELSE 1

\* An Array2<f64> is the sequence of its rows; nrows/ncols are its shape.
nrows(a) == Len(a)
ncols(a) == IF Len(a) = 0 THEN 0 ELSE Len(a[1])

\* A lookup that yields the coefficient 1 for a cell outside the shape.
ArrayGet_OrDefault(a, row, col) ==
    IF row < nrows(a) /\ col < ncols(a)
    THEN Some(a[row + 1][col + 1])
    ELSE Some(Lit(1, 0))

\* ArrayBase::get((row, col)) with 0-based indices: None outside the shape.
ArrayGet(a, row, col) ==
    IF row < nrows(a) /\ col < ncols(a) THEN Some(a[row + 1][col + 1]) ELSE None

ExpectMsg == "Invalid optical coefficients in computation_parameters.csv"

\* compute_incident_power with the coefficient taken from the transmitted
\* sensor's row.
compute_incident_power_TransmittedRow(optical_coefficients, reflected_power, reflected_power_background, reflected_power_meter_label, transmitted_power, transmitted_power_background, transmitted_power_meter_label, polarization) ==
    LET reflectivity_coefficient ==
            ArrayGet(optical_coefficients,
                     get_sensor_label_row_index(transmitted_power_meter_label),
                     get_reflectivity_column_index(polarization))
    IN IF ~reflectivity_coefficient.some THEN Panic(ExpectMsg)
       ELSE Ok(FDiv(FSub(value(reflected_power),
                         background(reflected_power_background)),
                    reflectivity_coefficient.val))

\* IncidentPower::compute_incident_power for Slide<f64>
compute_incident_power(optical_coefficients, reflected_power, reflected_power_background, reflected_power_meter_label, transmitted_power, transmitted_power_background, transmitted_power_meter_label, polarization) ==
    LET reflectivity_coefficient ==
            ArrayGet(optical_coefficients,
                     get_sensor_label_row_index(reflected_power_meter_label),
                     get_reflectivity_column_index(polarization))
    IN IF ~reflectivity_coefficient.some THEN Panic(ExpectMsg)
       ELSE Ok(FDiv(FSub(value(reflected_power),
                         background(reflected_power_background)),
                    reflectivity_coefficient.val))

\* compute_efficiency with the coefficient taken from the transmitted sensor's
\* row.
compute_efficiency_TransmittedRow(optical_coefficients, reflected_power, reflected_power_background, reflected_power_meter_label, transmitted_power, transmitted_power_background, transmitted_power_meter_label, polarization) ==
    LET reflectivity_coefficient ==
            ArrayGet(optical_coefficients,
                     get_sensor_label_row_index(transmitted_power_meter_label),
                     get_reflectivity_column_index(polarization))
    IN IF ~reflectivity_coefficient.some THEN Panic(ExpectMsg)
       ELSE Ok(FDiv(FSub(value(transmitted_power),
                         background(transmitted_power_background)),
                    FSub(FDiv(FSub(value(reflected_power),
                                   background(reflected_power_background)),
                              reflectivity_coefficient.val),
                         FSub(value(reflected_power),
                              background(reflected_power_background)))))

\* compute_efficiency that subtracts a background only when it is a Newport
\* background (a Thorlabs meter taken as zeroed by the instrument).
compute_efficiency_NewportBackgroundOnly(optical_coefficients, reflected_power, reflected_power_background, reflected_power_meter_label, transmitted_power, transmitted_power_background, transmitted_power_meter_label, polarization) ==
    LET reflectivity_coefficient ==
            ArrayGet(optical_coefficients,
                     get_sensor_label_row_index(reflected_power_meter_label),
                     get_reflectivity_column_index(polarization))
        bg(b) == IF b.type = "NewportModel835PowerMeterMeasurementBackground"
                 THEN background(b) ELSE Zero(1)
    IN IF ~reflectivity_coefficient.some THEN Panic(ExpectMsg)
       ELSE Ok(FDiv(FSub(value(transmitted_power),
                         bg(transmitted_power_background)),
                    FSub(FDiv(FSub(value(reflected_power),
                                   bg(reflected_power_background)),
                              reflectivity_coefficient.val),
                         FSub(value(reflected_power),
                              bg(reflected_power_background)))))

\* Efficiency::compute_efficiency for Slide<f64>
compute_efficiency(optical_coefficients, reflected_power, reflected_power_background, reflected_power_meter_label, transmitted_power, transmitted_power_background, transmitted_power_meter_label, polarization) ==
    LET reflectivity_coefficient ==
            ArrayGet(optical_coefficients,
                     get_sensor_label_row_index(reflected_power_meter_label),
                     get_reflectivity_column_index(polarization))
    IN IF ~reflectivity_coefficient.some THEN Panic(ExpectMsg)
       ELSE Ok(FDiv(FSub(value(transmitted_power),
                         background(transmitted_power_background)),
                    FSub(FDiv(FSub(value(reflected_power),
                                   background(reflected_power_background)),
                              reflectivity_coefficient.val),
                         FSub(value(reflected_power),
                              background(reflected_power_background)))))

---------------------------------------------------------------------------
\* experiment/trial.rs, experiment/computation.rs

\* A Trial; its Slide is the variable optical_coefficients.
Trial(label, full_data_set) ==
    [label |-> label,
     full_data_set |-> full_data_set,
     transmitted_sensor_background |->
         NewportModel835PowerMeterMeasurementBackground_new(Lit(1, -3)),
     reflected_sensor_background |->
         NewportModel835PowerMeterMeasurementBackground_new(Lit(1, -3)),
     transmitted_power_column_number |-> 3,
     transmitted_power_meter_label |-> "SensorC",
     reflected_power_column_number |-> 2,
     reflected_power_meter_label |-> "SensorA",
     incident_angle_column |-> 0,
     mirror_angle_column |-> 1,
     polarization_state |-> "Horizontal"]

TodoMsg == "not yet implemented"

\* The four reductions of impl Trial<BackgroundT, BackgroundR, f64>: each
\* body is todo!(), which panics before it reads self or its argument.
compute_efficiency_vs_mirror_angle(self, incident_angles) == Panic(TodoMsg)

compute_efficiency_vs_incident_angle(self, incident_angles) == Panic(TodoMsg)

compute_efficiency_vs_incident_angle_error(self, incident_angles) == Panic(TodoMsg)

compute_power_vs_mirror_angle(self, incident_angles) == Panic(TodoMsg)

---------------------------------------------------------------------------
\* Inputs

\* Power values (W) given to NewportModel835PowerMeterMeasurement::new:
\* inside each bucket, on every bucket bound, just above it, and outside.
NewportValues ==
    {Lit(-1, -9), Lit(-5, -3), Zero(-1), Zero(1), Lit(1, -9), Lit(2, -9),
     Lit(21, -10), Lit(20, -9), Lit(201, -10), Lit(200, -9), Lit(201, -9),
     Lit(1, -3), Lit(2, -3), Lit(201, -5), Lit(20, -3), Lit(201, -4),
     Lit(200, -3), Lit(201, -3), Lit(1, 0), Inf(1), NaN}

\* Wavelengths (nm) and power values given to
\* ThorLabsPM100A_S120VC_PowerMeterMeasurement::new.
ThorlabsWavelengths ==
    {Lit(150, 0), Lit(1999, -1), Lit(200, 0), Lit(250, 0), Lit(279, 0),
     Lit(2790001, -4), Lit(2795, -1), Lit(280, 0), Lit(439, 0), Lit(4395, -1),
     Lit(440, 0), Lit(6378, -1), Lit(980, 0), Lit(9805, -1), Lit(1100, 0),
     Lit(11005, -1), Lit(-300, 0), NaN}

ThorlabsValues == {Lit(1, -2), Lit(-1, -2), Lit(3, -1), Zero(1)}

\* Background values (W) given to the constructors of the two Background
\* types.
BackgroundValues ==
    {Lit(1, -3), Zero(1), Zero(-1), Lit(-1, -3), Lit(5, -1), Inf(-1), NaN}

\* Arguments of the Slide's two computations.
ReflectedPowers ==
    {NewportModel835PowerMeterMeasurement_new(Lit(1, -2)),
     NewportModel835PowerMeterMeasurement_new(Lit(1, -3)),
     ThorLabsPM100A_S120VC_PowerMeterMeasurement_new(Lit(1, -2), Lit(6378, -1)),
     ThorLabsPM100A_S120VC_PowerMeterMeasurement_new(Lit(4, -3), Lit(6378, -1))}

ReflectedBackgrounds ==
    {NewportModel835PowerMeterMeasurementBackground_new(Lit(1, -3)),
     ThorLabsPM100A_S120VC_PowerMeterMeasurementBackground_new(Lit(1, -3)),
     NewportModel835PowerMeterMeasurementBackground_new(Zero(1))}

TransmittedPowers ==
    {NewportModel835PowerMeterMeasurement_new(Lit(3, -3)),
     ThorLabsPM100A_S120VC_PowerMeterMeasurement_new(Lit(3, -3), Lit(532, 0)),
     ThorLabsPM100A_S120VC_PowerMeterMeasurement_new(Lit(4, -3), Lit(532, 0)),
     NewportModel835PowerMeterMeasurement_new(Lit(1, -3))}

TransmittedBackgrounds ==
    {NewportModel835PowerMeterMeasurementBackground_new(Lit(1, -3)),
     ThorLabsPM100A_S120VC_PowerMeterMeasurementBackground_new(Lit(1, -3))}

PowerMeterLabel == {"SensorA", "SensorC"}

PolarizationState == {"Horizontal", "Vertical"}

\* Calibration matrices a Slide may hold: the documented 2 x 3 shape (two of
\* them differing in column 1 only, one with the coefficients 1 and 0), and
\* shapes that lack a column or a row.
Matrices ==
    {<< <<Lit(5, -1), Lit(7, -1), Lit(25, -2)>>,
        <<Lit(3, -1), Lit(9, -1), Lit(1, 0)>> >>,
     << <<Lit(5, -1), Lit(1, -1), Lit(25, -2)>>,
        <<Lit(3, -1), Lit(2, -1), Lit(1, 0)>> >>,
     << <<Lit(1, 0), Lit(7, -1), Zero(1)>>,
        <<Lit(7, -1), Lit(1, -1), Lit(-6, -1)>> >>,
     << <<Lit(5, -1), Lit(7, -1)>>,
        <<Lit(3, -1), Lit(9, -1)>> >>,
     << <<Lit(5, -1), Lit(7, -1), Lit(25, -2)>> >>,
     << >>}

\* Datasets of a Trial: rows of
\* <<incident angle, mirror angle, reflected power, transmitted power>>.
Datasets ==
    {<< <<Lit(10, 0), Lit(1, 0), Lit(1, -2), Lit(3, -3)>>,
        <<Lit(20, 0), Lit(1, 0), Lit(4, -3), Lit(3, -3)>>,
        <<Lit(10, 0), Lit(2, 0), Lit(4, -3), Lit(2, -3)>> >>,
     << <<Lit(10, 0), Lit(2, 0), Lit(1, -2), Lit(3, -3)>>,
        <<Lit(10, 0), Lit(1, 0), Lit(4, -3), Lit(3, -3)>> >>,
     << >>}

\* Incident angles a reduction may be asked for.
RequestedAngles == {Lit(10, 0), Lit(20, 0), Lit(30, 0)}

---------------------------------------------------------------------------
\* State

VARIABLES
    optical_coefficients,   \* Slide.optical_coefficients
    trial,                  \* the Trial that owns the Slide
    call                    \* the call that has just returned or panicked: its
                            \* operation, arguments and outcome; "none" between calls

vars == <<optical_coefficients, trial, call>>

NoCall == [op |-> "none"]

Init ==
    /\ optical_coefficients \in Matrices
    /\ trial \in {Trial("trial", d) : d \in Datasets}
    /\ call = NoCall

\* NewportModel835PowerMeterMeasurement::new(v).uncertainty()
NewportUncertainty ==
    \E v \in NewportValues :
        LET self == NewportModel835PowerMeterMeasurement_new(v)
        IN /\ call = NoCall
           /\ call' = [op |-> "Newport_uncertainty", self |-> self,
                       out |-> Newport_uncertainty(self)]
           /\ UNCHANGED <<optical_coefficients, trial>>

\* ThorLabsPM100A_S120VC_PowerMeterMeasurement::new(v, w).uncertainty()
ThorlabsUncertainty ==
    \E v \in ThorlabsValues, w \in ThorlabsWavelengths :
        LET self == ThorLabsPM100A_S120VC_PowerMeterMeasurement_new(v, w)
        IN /\ call = NoCall
           /\ call' = [op |-> "Thorlabs_uncertainty", self |-> self,
                       out |-> Thorlabs_uncertainty(self)]
           /\ UNCHANGED <<optical_coefficients, trial>>

\* slide.compute_incident_power(...)
ComputeIncidentPower ==
    \E r \in ReflectedPowers, br \in ReflectedBackgrounds, rl \in PowerMeterLabel,
       t \in TransmittedPowers, bt \in TransmittedBackgrounds, tl \in PowerMeterLabel,
       p \in PolarizationState :
        /\ call = NoCall
        /\ call' = [op |-> "compute_incident_power",
                    reflected_power |-> r, reflected_power_background |-> br,
                    reflected_power_meter_label |-> rl,
                    transmitted_power |-> t, transmitted_power_background |-> bt,
                    transmitted_power_meter_label |-> tl, polarization |-> p,
                    out |-> compute_incident_power(optical_coefficients,
                                                   r, br, rl, t, bt, tl, p)]
        /\ UNCHANGED <<optical_coefficients, trial>>

\* compute_efficiency on a Slide that drops its matrix when a cell is missing.
ComputeEfficiency_DropsMatrixOnFailure ==
    \E r \in ReflectedPowers, br \in ReflectedBackgrounds, rl \in PowerMeterLabel,
       t \in TransmittedPowers, bt \in TransmittedBackgrounds, tl \in PowerMeterLabel,
       p \in PolarizationState :
        LET out == compute_efficiency(optical_coefficients, r, br, rl, t, bt, tl, p)
        IN /\ call = NoCall
           /\ call' = [op |-> "compute_efficiency",
                       reflected_power |-> r, reflected_power_background |-> br,
                       reflected_power_meter_label |-> rl,
                       transmitted_power |-> t, transmitted_power_background |-> bt,
                       transmitted_power_meter_label |-> tl, polarization |-> p,
                       out |-> out]
           /\ optical_coefficients' =
                  IF out.kind = "panic" THEN << >> ELSE optical_coefficients
           /\ UNCHANGED trial

\* slide.compute_efficiency(...)
ComputeEfficiency ==
    \E r \in ReflectedPowers, br \in ReflectedBackgrounds, rl \in PowerMeterLabel,
       t \in TransmittedPowers, bt \in TransmittedBackgrounds, tl \in PowerMeterLabel,
       p \in PolarizationState :
        /\ call = NoCall
        /\ call' = [op |-> "compute_efficiency",
                    reflected_power |-> r, reflected_power_background |-> br,
                    reflected_power_meter_label |-> rl,
                    transmitted_power |-> t, transmitted_power_background |-> bt,
                    transmitted_power_meter_label |-> tl, polarization |-> p,
                    out |-> compute_efficiency(optical_coefficients,
                                               r, br, rl, t, bt, tl, p)]
        /\ UNCHANGED <<optical_coefficients, trial>>

\* trial.compute_efficiency_vs_mirror_angle(incident_angles)
ComputeEfficiencyVsMirrorAngle ==
    \E incident_angles \in SUBSET RequestedAngles :
        /\ call = NoCall
        /\ call' = [op |-> "compute_efficiency_vs_mirror_angle",
                    incident_angles |-> incident_angles,
                    out |-> compute_efficiency_vs_mirror_angle(trial, incident_angles)]
        /\ UNCHANGED <<optical_coefficients, trial>>

\* trial.compute_efficiency_vs_incident_angle(incident_angles)
ComputeEfficiencyVsIncidentAngle ==
    \E incident_angles \in SUBSET RequestedAngles :
        /\ call = NoCall
        /\ call' = [op |-> "compute_efficiency_vs_incident_angle",
                    incident_angles |-> incident_angles,
                    out |-> compute_efficiency_vs_incident_angle(trial, incident_angles)]
        /\ UNCHANGED <<optical_coefficients, trial>>

\* trial.compute_efficiency_vs_incident_angle_error(incident_angles)
ComputeEfficiencyVsIncidentAngleError ==
    \E incident_angles \in SUBSET RequestedAngles :
        /\ call = NoCall
        /\ call' = [op |-> "compute_efficiency_vs_incident_angle_error",
                    incident_angles |-> incident_angles,
                    out |-> compute_efficiency_vs_incident_angle_error(trial, incident_angles)]
        /\ UNCHANGED <<optical_coefficients, trial>>

\* trial.compute_power_vs_mirror_angle(incident_angles)
ComputePowerVsMirrorAngle ==
    \E incident_angles \in SUBSET RequestedAngles :
        /\ call = NoCall
        /\ call' = [op |-> "compute_power_vs_mirror_angle",
                    incident_angles |-> incident_angles,
                    out |-> compute_power_vs_mirror_angle(trial, incident_angles)]
        /\ UNCHANGED <<optical_coefficients, trial>>

\* NewportModel835PowerMeterMeasurement::new(v).value()
NewportValue ==
    \E v \in NewportValues :
        LET self == NewportModel835PowerMeterMeasurement_new(v)
        IN /\ call = NoCall
           /\ call' = [op |-> "Newport_value", value |-> v, self |-> self,
                       out |-> Ok(value(self))]
           /\ UNCHANGED <<optical_coefficients, trial>>

\* ThorLabsPM100A_S120VC_PowerMeterMeasurement::new(v, w).value()
ThorlabsValue ==
    \E v \in ThorlabsValues, w \in ThorlabsWavelengths :
        LET self == ThorLabsPM100A_S120VC_PowerMeterMeasurement_new(v, w)
        IN /\ call = NoCall
           /\ call' = [op |-> "Thorlabs_value", value |-> v, at_wavelength |-> w,
                       self |-> self, out |-> Ok(value(self))]
           /\ UNCHANGED <<optical_coefficients, trial>>

\* NewportModel835PowerMeterMeasurementBackground::new(b).background()
NewportBackground ==
    \E b \in BackgroundValues :
        LET self == NewportModel835PowerMeterMeasurementBackground_new(b)
        IN /\ call = NoCall
           /\ call' = [op |-> "Newport_background", background |-> b,
                       self |-> self, out |-> Ok(background(self))]
           /\ UNCHANGED <<optical_coefficients, trial>>

\* ThorLabsPM100A_S120VC_PowerMeterMeasurementBackground(b).background()
ThorlabsBackground ==
    \E b \in BackgroundValues :
        LET self == ThorLabsPM100A_S120VC_PowerMeterMeasurementBackground_new(b)
        IN /\ call = NoCall
           /\ call' = [op |-> "Thorlabs_background", background |-> b,
                       self |-> self, out |-> Ok(background(self))]
           /\ UNCHANGED <<optical_coefficients, trial>>

\* The caller takes the outcome (or the panic is caught); the program is
\* synchronous, so the next call starts only then.
TakeResult ==
    /\ call # NoCall
    /\ call' = NoCall
    /\ UNCHANGED <<optical_coefficients, trial>>

Next ==
    \/ NewportUncertainty
    \/ ThorlabsUncertainty
    \/ NewportValue
    \/ ThorlabsValue
    \/ NewportBackground
    \/ ThorlabsBackground
    \/ ComputeIncidentPower
    \/ ComputeEfficiency
    \/ ComputeEfficiencyVsMirrorAngle
    \/ ComputeEfficiencyVsIncidentAngle
    \/ ComputeEfficiencyVsIncidentAngleError
    \/ ComputePowerVsMirrorAngle
    \/ TakeResult

Spec == Init /\ [][Next]_vars

---------------------------------------------------------------------------
\* Properties

\* The error kinds of the design (section 7 of the specification) that the
\* program's panics stand for.
ErrorKind(out) ==
    IF out.kind # "panic" THEN "none"
    ELSE IF out.msg = "oops" THEN "OutOfRangeReading"
    ELSE IF out.msg = "Invalid measurement. Wavelength is out of range."
         THEN "OutOfRangeReading"
    ELSE IF out.msg = ExpectMsg THEN "InvalidCalibrationCell"
    ELSE IF out.msg = TodoMsg THEN "NotImplemented"
    ELSE "Other"

\* The Newport table of the specification: bucket bounds (W) and the two
\* fractional coefficients.  The first bucket includes its lower bound;
\* every bucket includes its upper bound.
NewportTable ==
    << [lo |-> Zero(1),      hi |-> Lit(2, -9),   fullscale |-> Lit(2, -3), reading |-> Lit(4, -3)],
       [lo |-> Lit(2, -9),   hi |-> Lit(20, -9),  fullscale |-> Lit(5, -4), reading |-> Lit(4, -3)],
       [lo |-> Lit(20, -9),  hi |-> Lit(200, -9), fullscale |-> Lit(5, -4), reading |-> Lit(2, -3)],
       [lo |-> Lit(200, -9), hi |-> Lit(2, -3),   fullscale |-> Lit(5, -4), reading |-> Lit(15, -4)],
       [lo |-> Lit(2, -3),   hi |-> Lit(20, -3),  fullscale |-> Lit(5, -4), reading |-> Lit(1, -3)],
       [lo |-> Lit(20, -3),  hi |-> Lit(200, -3), fullscale |-> Lit(5, -4), reading |-> Lit(1, -3)] >>

\* The Thorlabs table of the specification: wavelength buckets (nm).
ThorlabsTable ==
    << [lo |-> Lit(200, 0), hi |-> Lit(279, 0),  frac |-> Lit(7, -2)],
       [lo |-> Lit(279, 0), hi |-> Lit(439, 0),  frac |-> Lit(5, -2)],
       [lo |-> Lit(439, 0), hi |-> Lit(980, 0),  frac |-> Lit(3, -2)],
       [lo |-> Lit(980, 0), hi |-> Lit(1100, 0), frac |-> Lit(7, -2)] >>

\* Bucket i of a table contains v.
InBucket(table, i, v) ==
    /\ IF i = 1 THEN FLe(table[i].lo, v) ELSE FLt(table[i].lo, v)
    /\ FLe(v, table[i].hi)

BucketsOf(table, v) == {i \in DOMAIN table : InBucket(table, i, v)}

\* C1: for every power value v in [0, 200 mW] the Newport uncertainty is
\* v * (fullscale + reading) of the one table bucket that contains v; a value
\* on a bucket's upper bound takes that bucket's coefficients.
C1_NewportUncertaintyFromTable ==
    (call.op = "Newport_uncertainty"
        /\ FLe(Zero(1), call.self.value) /\ FLe(call.self.value, Lit(200, -3)))
    => /\ Cardinality(BucketsOf(NewportTable, call.self.value)) = 1
       /\ \A i \in BucketsOf(NewportTable, call.self.value) :
            call.out = Ok(FMul(call.self.value,
                               FAdd(NewportTable[i].fullscale, NewportTable[i].reading)))

\* A reading of exactly 2 nW got the coefficients of the first bucket:
\* 2e-9 * (0.002 + 0.004) = 1.2e-11.
C1_Witness ==
    /\ call.op = "Newport_uncertainty"
    /\ call.self.value = Lit(2, -9)
    /\ call.out = Ok(Lit(12, -12))

\* C2: for every wavelength w in [200, 1100] nm and every value v the Thorlabs
\* uncertainty is v * frac(w), frac being 0.07 on [200, 279], 0.05 on
\* (279, 439], 0.03 on (439, 980] and 0.07 on (980, 1100]; 279 takes 0.07 and
\* a wavelength strictly between 279 and 280 takes 0.05.
C2_ThorlabsUncertaintyFromTable ==
    (call.op = "Thorlabs_uncertainty"
        /\ FLe(Lit(200, 0), call.self.at_wavelength)
        /\ FLe(call.self.at_wavelength, Lit(1100, 0)))
    => /\ Cardinality(BucketsOf(ThorlabsTable, call.self.at_wavelength)) = 1
       /\ \A i \in BucketsOf(ThorlabsTable, call.self.at_wavelength) :
            call.out = Ok(FMul(call.self.value, ThorlabsTable[i].frac))
       /\ call.self.at_wavelength = Lit(279, 0)
            => call.out = Ok(FMul(call.self.value, Lit(7, -2)))
       /\ (FLt(Lit(279, 0), call.self.at_wavelength)
              /\ FLt(call.self.at_wavelength, Lit(280, 0)))
            => call.out = Ok(FMul(call.self.value, Lit(5, -2)))

\* A reading of 0.01 W at 279.0001 nm got 0.01 * 0.05 = 0.0005.
C2_Witness ==
    /\ call.op = "Thorlabs_uncertainty"
    /\ call.self.at_wavelength = Lit(2790001, -4)
    /\ call.self.value = Lit(1, -2)
    /\ call.out = Ok(Lit(5, -4))

\* C6: uncertainty() of a Newport reading whose value is negative or greater
\* than 0.200 W fails with the invalid-range outcome; it returns no number.
C6_NewportOutOfRangeFails ==
    (call.op = "Newport_uncertainty"
        /\ (FLt(call.self.value, Zero(1)) \/ FGt(call.self.value, Lit(200, -3))))
    => /\ call.out.kind = "panic"
       /\ ErrorKind(call.out) = "OutOfRangeReading"

\* uncertainty() was called on a reading of 0.201 W and panicked.
C6_Witness ==
    /\ call.op = "Newport_uncertainty"
    /\ call.self.value = Lit(201, -3)
    /\ call.out = Panic("oops")

\* C7: uncertainty() of a Thorlabs reading whose wavelength is below 200 nm or
\* above 1100 nm fails with the invalid-range outcome, whatever the power
\* value; it returns no number.
C7_ThorlabsOutOfRangeFails ==
    (call.op = "Thorlabs_uncertainty"
        /\ (FLt(call.self.at_wavelength, Lit(200, 0))
              \/ FGt(call.self.at_wavelength, Lit(1100, 0))))
    => /\ call.out.kind = "panic"
       /\ ErrorKind(call.out) = "OutOfRangeReading"

\* uncertainty() was called on a reading taken at 1100.5 nm and panicked.
C7_Witness ==
    /\ call.op = "Thorlabs_uncertainty"
    /\ call.self.at_wavelength = Lit(11005, -1)
    /\ call.self.value = Lit(3, -1)
    /\ call.out = Panic("Invalid measurement. Wavelength is out of range.")

\* The quantities of section 4.3 of the specification for the call in `call`.
Rc == FSub(call.reflected_power.value, call.reflected_power_background.b)

Tc == FSub(call.transmitted_power.value, call.transmitted_power_background.b)

\* Row and column (counted from 1) of the matrix cell for a sensor label and
\* a polarization: row 0 / 1 for SensorA / SensorC, column 0 / 2 for
\* Horizontal / Vertical.
RowOf(label) == IF label = "SensorA" THEN 1 ELSE 2

ColOf(polarization) == IF polarization = "Horizontal" THEN 1 ELSE 3

HasCell(m, label, polarization) ==
    /\ RowOf(label) <= Len(m)
    /\ ColOf(polarization) <= Len(m[RowOf(label)])

\* The coefficient of the call in `call`: the reflected sensor's row.
Rho == optical_coefficients[RowOf(call.reflected_power_meter_label)][ColOf(call.polarization)]

IsSlideCall == call.op \in {"compute_incident_power", "compute_efficiency"}

\* Two matrices of the same shape that agree outside column 1.
AgreeOutsideColumn1(a, b) ==
    /\ Len(a) = Len(b)
    /\ \A i \in 1..Len(a) :
        /\ Len(a[i]) = Len(b[i])
        /\ \A j \in 1..Len(a[i]) : j # 2 => a[i][j] = b[i][j]

\* C3: compute_incident_power returns (reflected.value() -
\* reflected_background.background()) / rho, rho being the cell at row 0
\* (SensorA) or 1 (SensorC) of the reflected sensor label and column 0
\* (Horizontal) or 2 (Vertical); column 1 is never read: the result is the same
\* with any other numbers in column 1.
C3_IncidentPowerFormula ==
    (call.op = "compute_incident_power"
        /\ HasCell(optical_coefficients, call.reflected_power_meter_label, call.polarization))
    => /\ call.out = Ok(FDiv(Rc, Rho))
       /\ \A m \in Matrices :
            AgreeOutsideColumn1(optical_coefficients, m)
            => compute_incident_power(m, call.reflected_power,
                   call.reflected_power_background, call.reflected_power_meter_label,
                   call.transmitted_power, call.transmitted_power_background,
                   call.transmitted_power_meter_label, call.polarization) = call.out

\* Vertical polarization on SensorA, reading 0.01 W, background 0.001 W, on a
\* matrix whose row 0 is 0.5, 0.7, 0.25: (0.01 - 0.001) / 0.25 = 0.036.
C3_Witness ==
    /\ call.op = "compute_incident_power"
    /\ call.polarization = "Vertical"
    /\ call.reflected_power_meter_label = "SensorA"
    /\ Len(optical_coefficients) = 2
    /\ optical_coefficients[1] = <<Lit(5, -1), Lit(7, -1), Lit(25, -2)>>
    /\ call.out = Ok(Lit(36, -3))

\* The incident power of the arguments of the call in `call`.
IncidentPowerOfCall ==
    compute_incident_power(optical_coefficients, call.reflected_power,
        call.reflected_power_background, call.reflected_power_meter_label,
        call.transmitted_power, call.transmitted_power_background,
        call.transmitted_power_meter_label, call.polarization)

\* The denominator of the efficiency: incident power minus reflected power.
Denominator == FSub(IncidentPowerOfCall.val, Rc)

\* compute_efficiency returned Tc / (Rc / rho - Rc), rho from the reflected
\* sensor's row, whatever the transmitted sensor label.
EfficiencyFormula ==
    /\ call.out = Ok(FDiv(Tc, FSub(FDiv(Rc, Rho), Rc)))
    /\ \A tl \in PowerMeterLabel :
        compute_efficiency(optical_coefficients, call.reflected_power,
            call.reflected_power_background, call.reflected_power_meter_label,
            call.transmitted_power, call.transmitted_power_background,
            tl, call.polarization) = call.out

\* x is y up to two roundings: |x - y| <= 2 * 10^(1 - SigDigits) * |y|,
\* for finite x and y.
WithinRounding(x, y) ==
    LET e == IF x.e < y.e THEN x.e ELSE y.e
        n == x.s * x.m * Pow10(x.e - e) - y.s * y.m * Pow10(y.e - e)
    IN (IF n < 0 THEN -n ELSE n) * Pow10(SigDigits - 1) <= 2 * y.m * Pow10(y.e - e)

C5_ZeroDenominatorIsFlagged ==
    (call.op = "compute_efficiency"
        /\ HasCell(optical_coefficients, call.reflected_power_meter_label, call.polarization)
        /\ (FEq(Rho, Lit(1, 0)) \/ IsZero(Rc)))
    => call.out.kind # "ok"

\* C8: when the matrix has no cell at (row(reflected sensor),
\* column(polarization)), compute_incident_power and compute_efficiency both
\* fail with the configuration error; neither returns a number.
C8_MissingCellFails ==
    (IsSlideCall
        /\ ~HasCell(optical_coefficients, call.reflected_power_meter_label, call.polarization))
    => /\ call.out.kind = "panic"
       /\ ErrorKind(call.out) = "InvalidCalibrationCell"

\* compute_efficiency was called with Vertical polarization on a 2 x 2 matrix
\* and panicked.
C8_Witness ==
    /\ call.op = "compute_efficiency"
    /\ call.polarization = "Vertical"
    /\ call.reflected_power_meter_label = "SensorA"
    /\ Len(optical_coefficients) = 2
    /\ Len(optical_coefficients[1]) = 2
    /\ call.out = Panic(ExpectMsg)

IsReduction ==
    call.op \in {"compute_efficiency_vs_mirror_angle",
                 "compute_efficiency_vs_incident_angle",
                 "compute_efficiency_vs_incident_angle_error",
                 "compute_power_vs_mirror_angle"}

\* The values of the dataset's incident-angle column.
IncidentAnglesOf(t) ==
    {t.full_data_set[i][t.incident_angle_column + 1] : i \in 1..Len(t.full_data_set)}

\* C9: each of the four reductions fails as a whole with UnknownIncidentAngle
\* when a requested incident angle does not occur in the dataset's
\* incident-angle column.
C9_UnknownIncidentAngleFails ==
    (IsReduction /\ \E a \in call.incident_angles : a \notin IncidentAnglesOf(trial))
    => /\ call.out.kind # "ok"
       /\ ErrorKind(call.out) = "UnknownIncidentAngle"

\* The rows of the dataset whose incident-angle column equals a, in order.
RowsAt(a) ==
    SelectSeq(trial.full_data_set, LAMBDA row : row[trial.incident_angle_column + 1] = a)

\* The efficiency of one row of the dataset.
RowEfficiency(row) ==
    compute_efficiency(optical_coefficients,
        NewportModel835PowerMeterMeasurement_new(row[trial.reflected_power_column_number + 1]),
        trial.reflected_sensor_background, trial.reflected_power_meter_label,
        NewportModel835PowerMeterMeasurement_new(row[trial.transmitted_power_column_number + 1]),
        trial.transmitted_sensor_background, trial.transmitted_power_meter_label,
        trial.polarization_state)

\* The (mirror_angle, efficiency) pairs of the rows at incident angle a.
EfficiencySeries(a) ==
    [i \in 1..Len(RowsAt(a)) |->
        <<RowsAt(a)[i][trial.mirror_angle_column + 1], RowEfficiency(RowsAt(a)[i]).val>>]

\* C10: when every requested incident angle is present in the dataset,
\* compute_efficiency_vs_mirror_angle returns a mapping with exactly one key
\* per requested angle, whose value is the sequence of (mirror_angle,
\* efficiency) pairs of the rows at that angle, in dataset order.
C10_EfficiencyVsMirrorAngleMapping ==
    (call.op = "compute_efficiency_vs_mirror_angle"
        /\ call.incident_angles \subseteq IncidentAnglesOf(trial))
    => /\ call.out.kind = "ok"
       /\ DOMAIN call.out.val = call.incident_angles
       /\ \A a \in call.incident_angles : call.out.val[a] = EfficiencySeries(a)

\* C11: when every requested incident angle is present in the dataset,
\* compute_efficiency_vs_incident_angle returns exactly one
\* (incident_angle, efficiency) pair per requested angle, the efficiency
\* being that of a dataset row at that incident angle.
C11_EfficiencyVsIncidentAnglePairs ==
    (call.op = "compute_efficiency_vs_incident_angle"
        /\ call.incident_angles \subseteq IncidentAnglesOf(trial))
    => /\ call.out.kind = "ok"
       /\ Len(call.out.val) = Cardinality(call.incident_angles)
       /\ \A a \in call.incident_angles :
            \E i \in DOMAIN call.out.val :
                /\ call.out.val[i][1] = a
                /\ \E j \in DOMAIN RowsAt(a) :
                       call.out.val[i][2] = RowEfficiency(RowsAt(a)[j]).val

\* The Slide operation named op applied to a matrix and arguments.
SlideResult(op, m, r, br, rl, t, bt, tl, p) ==
    IF op = "compute_incident_power"
    THEN compute_incident_power(m, r, br, rl, t, bt, tl, p)
    ELSE compute_efficiency(m, r, br, rl, t, bt, tl, p)

\* Wavelengths (nm) of the substituted Thorlabs readings, one of them outside
\* the instrument's range.
SubstituteWavelengths == {Lit(532, 0), Lit(6378, -1), Lit(150, 0)}

\* The readings of either instrument type whose value() is v, and the
\* backgrounds of either type whose background() is b.
MeasurementsOf(v) ==
    {NewportModel835PowerMeterMeasurement_new(v)}
    \cup {ThorLabsPM100A_S120VC_PowerMeterMeasurement_new(v, w) :
              w \in SubstituteWavelengths}

BackgroundsOf(b) ==
    {NewportModel835PowerMeterMeasurementBackground_new(b),
     ThorLabsPM100A_S120VC_PowerMeterMeasurementBackground_new(b)}

\* C12: compute_incident_power and compute_efficiency depend on their
\* measurement and background arguments only through value() and
\* background(): with every such argument replaced by an object of either
\* instrument type (any wavelength) that returns the same number, the outcome
\* is the one the call had.
C12_InstrumentTypeSubstitution ==
    IsSlideCall
    => \A r \in MeasurementsOf(value(call.reflected_power)),
          br \in BackgroundsOf(background(call.reflected_power_background)),
          t \in MeasurementsOf(value(call.transmitted_power)),
          bt \in BackgroundsOf(background(call.transmitted_power_background)) :
            SlideResult(call.op, optical_coefficients, r, br,
                        call.reflected_power_meter_label, t, bt,
                        call.transmitted_power_meter_label, call.polarization)
                = call.out

\* compute_efficiency returned a number for a Thorlabs reflected reading with
\* a Thorlabs background and a Newport transmitted reading with a Newport
\* background: every argument has a substitute of the other type.
C12_Witness ==
    /\ call.op = "compute_efficiency"
    /\ call.reflected_power.type = "ThorLabsPM100A_S120VC_PowerMeterMeasurement"
    /\ call.reflected_power_background.type
           = "ThorLabsPM100A_S120VC_PowerMeterMeasurementBackground"
    /\ call.transmitted_power.type = "NewportModel835PowerMeterMeasurement"
    /\ call.transmitted_power_background.type
           = "NewportModel835PowerMeterMeasurementBackground"
    /\ call.out.kind = "ok"
    /\ IsFinite(call.out.val)
    /\ ~IsZero(call.out.val)

\* C13: the result of compute_incident_power is independent of the three
\* transmitted-side arguments: with the matrix and the reflected reading,
\* reflected background, reflected sensor label and polarization of the call,
\* every other transmitted reading, transmitted background and transmitted
\* sensor label gives the outcome the call had.
C13_IncidentPowerIgnoresTransmittedSide ==
    call.op = "compute_incident_power"
    => \A t \in TransmittedPowers, bt \in TransmittedBackgrounds,
          tl \in PowerMeterLabel :
            compute_incident_power(optical_coefficients,
                                   call.reflected_power,
                                   call.reflected_power_background,
                                   call.reflected_power_meter_label,
                                   t, bt, tl, call.polarization)
                = call.out

\* compute_incident_power returned (0.01 - 0.001) / 0.5 = 0.018 for the
\* reflected sensor SensorA while the transmitted sensor was SensorC, whose
\* row holds another coefficient (0.3).
C13_Witness ==
    /\ call.op = "compute_incident_power"
    /\ call.reflected_power_meter_label = "SensorA"
    /\ call.transmitted_power_meter_label = "SensorC"
    /\ call.polarization = "Horizontal"
    /\ value(call.reflected_power) = Lit(1, -2)
    /\ background(call.reflected_power_background) = Lit(1, -3)
    /\ value(call.transmitted_power) = Lit(4, -3)
    /\ HasCell(optical_coefficients, "SensorC", "Horizontal")
    /\ optical_coefficients[2][1] = Lit(3, -1)
    /\ call.out = Ok(Lit(18, -3))

\* C14: every step, a failing call included, leaves the Slide's calibration
\* matrix as it was, and the outcome of a compute_incident_power or
\* compute_efficiency call made in the step is the function of that matrix and
\* of the call's arguments alone.  The matrix therefore is the one the Slide
\* was constructed with after any sequence of calls, and two calls with
\* identical arguments return identical results whatever was called between
\* them.
C14_SlideCallsArePure ==
    [][/\ optical_coefficients' = optical_coefficients
       /\ call'.op \in {"compute_incident_power", "compute_efficiency"}
            => call'.out =
                   SlideResult(call'.op, optical_coefficients,
                               call'.reflected_power,
                               call'.reflected_power_background,
                               call'.reflected_power_meter_label,
                               call'.transmitted_power,
                               call'.transmitted_power_background,
                               call'.transmitted_power_meter_label,
                               call'.polarization)]_vars

\* compute_efficiency has failed on a Slide whose matrix has the single row
\* of SensorA (the row of SensorC is missing), and the matrix still has that
\* row.
C14_Witness ==
    /\ call.op = "compute_efficiency"
    /\ call.reflected_power_meter_label = "SensorC"
    /\ call.out.kind = "panic"
    /\ nrows(optical_coefficients) = 1
    /\ ncols(optical_coefficients) = 3

\* The arms of a match whose guard holds.
ArmsTaken(guards) == {i \in DOMAIN guards : guards[i]}

\* The call in `call` is uncertainty() of a reading whose classified input
\* (the power of a Newport reading, the wavelength of a Thorlabs reading) has
\* the guards `guards`, the variants `variants`, the coefficient tables
\* `tables` and lies in the valid interval iff `valid`: at most one guard
\* holds; one holds iff the input is valid; every variant has an entry in
\* every table; the classification is the variant of the guard that holds;
\* the call fails iff the input is not valid, and never in a table lookup.
RangesPartition(guards, variants, tables, range, valid) ==
    /\ Cardinality(ArmsTaken(guards)) <= 1
    /\ (ArmsTaken(guards) # {}) <=> valid
    /\ \A i \in DOMAIN variants : \A t \in DOMAIN tables :
           variants[i] \in DOMAIN tables[t]
    /\ DOMAIN guards = DOMAIN variants
    /\ \A i \in ArmsTaken(guards) : range = variants[i]
    /\ (call.out.kind = "panic") <=> ~valid
    /\ call.out.kind = "panic" => call.out.msg # UnwrapNoneMsg

\* C15: the guards of each instrument's get_range are pairwise disjoint and
\* jointly cover exactly the valid interval ([0, 0.2] W for Newport,
\* [200, 1100] nm for Thorlabs), and every range variant has an entry in each
\* coefficient table; uncertainty() fails iff the classified input is outside
\* the valid interval, and its table lookup never fails.
C15_RangesPartitionValidInterval ==
    /\ call.op = "Newport_uncertainty"
         => RangesPartition(
                Newport_get_range_guards(call.self.value),
                NewportModel835PowerMeterRange,
                <<NEWPORT_MODEL_835_POWER_METER_FULLSCALE_UNCERTAINTIES,
                  NEWPORT_MODEL_835_POWER_METER_READING_UNCERTAINTIES>>,
                Newport_get_range(call.self.value),
                FLe(Zero(1), call.self.value)
                    /\ FLe(call.self.value, Lit(200, -3)))
    /\ call.op = "Thorlabs_uncertainty"
         => RangesPartition(
                Thorlabs_get_range_guards(call.self.at_wavelength),
                ThorlabsPm100aS120vcUncertaintyWavelengthRange,
                <<THORLABS_PM100A_S120VC_WAVELENGTH_UNCERTAINTIES>>,
                Thorlabs_get_range(call.self.at_wavelength),
                FLe(Lit(200, 0), call.self.at_wavelength)
                    /\ FLe(call.self.at_wavelength, Lit(1100, 0)))

\* uncertainty() succeeded on a Newport reading of exactly 0.002 W, the bound
\* shared by the guards of the 2 mW and 20 mW arms: only the 2 mW arm took it,
\* 0.002 * (0.0005 + 0.0015) = 0.000004.
C15_Witness ==
    /\ call.op = "Newport_uncertainty"
    /\ call.self.value = Lit(2, -3)
    /\ ArmsTaken(Newport_get_range_guards(call.self.value)) = {4}
    /\ call.out = Ok(Lit(4, -6))

\* C16: for both instrument models new(...) succeeds for every input, an
\* out-of-range power or wavelength included, and value() then returns
\* exactly the constructed power value without failing; a Background
\* constructed from b returns exactly b from background().  The range is
\* validated by uncertainty() only.
C16_ConstructionDoesNotValidate ==
    /\ call.op \in {"Newport_value", "Thorlabs_value"}
         => call.out = Ok(call.value)
    /\ call.op \in {"Newport_background", "Thorlabs_background"}
         => call.out = Ok(call.background)

\* value() returned 0.201 W from a Newport reading constructed with 0.201 W,
\* a power on which uncertainty() fails.
C16_Witness ==
    /\ call.op = "Newport_value"
    /\ call.value = Lit(201, -3)
    /\ call.out = Ok(Lit(201, -3))
    /\ Newport_uncertainty(call.self) = Panic("oops")

C17_WitnessAboveNewportRange ==
    /\ call.op = "Thorlabs_uncertainty"
    /\ call.self.value = Lit(3, -1)
    /\ call.self.at_wavelength = Lit(1100, 0)
    /\ call.out = Ok(Lit(21, -3))

=============================================================================
